---- MODULE Spec2Model ----
(***************************************************************************)
(* A model of gpbackup's restore/parallel.go: the postdata batching        *)
(* function BatchPostdataStatements, the statement execution engine        *)
(* ExecuteStatements with its worker executeStatementsForConn, and the     *)
(* file writer WriteStatements with its worker writeStatements; and of     *)
(* utils.EmailReport as its tests show it.                                 *)
(*                                                                         *)
(* SpecBatch    applies BatchPostdataStatements to every bounded input.    *)
(* Spec         runs one invocation of ExecuteStatements, serial or        *)
(*              parallel, one action per shared-memory step of a worker.   *)
(* SpecWrite    runs one invocation of WriteStatements in the same way.    *)
(* SpecEngines  runs one invocation of either.                             *)
(* SpecEnginesFair is SpecEngines under weak fairness of the calling       *)
(*              goroutine and of each worker goroutine.                    *)
(* SpecPipeline batches the input and runs ExecuteStatements on the three  *)
(*              batches, one call after the other.                         *)
(* SpecBlocking is SpecPipeline or SpecWrite.                              *)
(* SpecEmail    runs one call of EmailReport.                              *)
(***************************************************************************)
EXTENDS Integers, Sequences, FiniteSets, Bags, TLC

VARIABLES
    \* ---- BatchPostdataStatements (parallel.go:197-222)
    statements,           \* the input slice
    skipIndex,            \* the skipIndex parameter
    firstBatch,           \* the three returned slices
    secondBatch,
    thirdBatch,
    bpc,                  \* "input" before the call, "done" after it
    batchNo,              \* number of batches handed to ExecuteStatements so far
    \* ---- ExecuteStatements (parallel.go:81-114): inputs
    execStmts,            \* the statements slice handed to ExecuteStatements
    numConns,             \* connectionPool.NumConns
    executeInParallel,    \* the executeInParallel parameter
    onErrorContinue,      \* MustGetFlagBool(options.ON_ERROR_CONTINUE)
    whichConn,            \* the variadic whichConn parameter
    \* ---- shared state of the invocation
    wasTerminated,        \* package flag set by the signal handler
    tasks,                \* the buffered, closed channel
    fatalErr,             \* var fatalErr error (0 is nil)
    numErrors,            \* var numErrors int32
    errorTablesMetadata,  \* package map of failed schema.name keys
    mutexHolder,          \* holder of the package mutex (-1: unlocked)
    progress,             \* number of progressBar.Increment calls
    \* ---- control
    mpc,                  \* position of the caller of ExecuteStatements
    spawnI,               \* loop variable i of the spawning loop
    goroutines,           \* number of goroutines started
    ret,                  \* the value returned (-1: nothing returned)
    wpc,                  \* position of each executeStatementsForConn call
    wstmt,                \* the statement each worker holds (0: none)
    wconn,                \* the whichConn argument of each worker
    \* ---- what connectionPool.Exec and the progress bar observed
    attempts,             \* per statement: number of Exec calls
    execConn,             \* per statement: connection of its last Exec call
    execWorker,           \* per statement: worker of its last Exec call
    outcome,              \* per statement: "none", "ok" or "err"
    incremented,          \* per statement: Increment calls made for it
    lateAttempts,         \* per worker: Exec calls entered while fatalErr was set
    \* ---- WriteStatements (parallel.go:129-170)
    writeStmts,           \* the statements slice handed to WriteStatements
    file,                 \* the bytes of the file named by filename
    fileInit,             \* the bytes of that file before the call
    openFailed,           \* os.OpenFile returned an error (f is nil)
    \* ---- EmailReport (utils, seen through report_test.go:362-422)
    homeFound,            \* "test -f $HOME/mail_contacts" succeeds
    gphomeFound,          \* "test -f $GPHOME/bin/mail_contacts" succeeds
    homeContacts,         \* the addresses in $HOME/mail_contacts
    gphomeContacts,       \* the addresses in $GPHOME/bin/mail_contacts
    epc,                  \* position of EmailReport
    contactsFile,         \* the file the contacts are read from ("none": none)
    localCommands,        \* the commands handed to the executor, in order
    warned                \* the warning that no file was found was printed

batchVars == <<statements, skipIndex, firstBatch, secondBatch, thirdBatch, bpc,
               batchNo>>

inputVars == <<execStmts, numConns, executeInParallel, onErrorContinue, whichConn>>

sharedVars == <<wasTerminated, tasks, fatalErr, numErrors, errorTablesMetadata,
                mutexHolder, progress>>

ctlVars == <<mpc, spawnI, goroutines, ret, wpc, wstmt, wconn>>

obsVars == <<attempts, execConn, execWorker, outcome, incremented, lateAttempts>>

fileVars == <<writeStmts, file, fileInit, openFailed>>

engineVars == <<inputVars, sharedVars, ctlVars, obsVars, fileVars>>

emailVars == <<homeFound, gphomeFound, homeContacts, gphomeContacts, epc,
               contactsFile, localCommands, warned>>

vars == <<batchVars, engineVars, emailVars>>

(***************************************************************************)
(* Bounds of the model.                                                    *)
(***************************************************************************)
MaxLen == 3        \* longest input of BatchPostdataStatements
MaxStmts == 3      \* longest input of ExecuteStatements
MaxConns == 2      \* largest connection pool
NumNames == 2      \* distinct object names handed out to the statements
MaxWStmts == 2     \* longest input of WriteStatements
Gap == 1           \* bytes left untouched between two statements' ranges
OldLen == 3        \* length of a file that exists before WriteStatements

(***************************************************************************)
(* Strings are sequences of characters, so that strings.Contains is        *)
(* computed and not assumed.                                               *)
(***************************************************************************)
StrINDEX == <<"I", "N", "D", "E", "X">>

StrSpaceMETADATA == <<" ", "M", "E", "T", "A", "D", "A", "T", "A">>

StrINDEX_METADATA == StrINDEX \o StrSpaceMETADATA

StrRULE == <<"R", "U", "L", "E">>

StrRULE_METADATA == StrRULE \o StrSpaceMETADATA

StrMETADATA == <<"M", "E", "T", "A", "D", "A", "T", "A">>

ObjectTypes == {StrINDEX, StrINDEX_METADATA, StrRULE, StrRULE_METADATA, StrMETADATA}

ReferenceObjects == {"t1", "t2"}

Names == {"a", "b"}

StatementWithType == [ObjectType : ObjectTypes, ReferenceObject : ReferenceObjects,
                      Name : Names]

\* Contains of a substring that starts one character late: a bug that
\* forgets the leading blank of " METADATA".
ContainsNoFirstChar(s, substr) ==
    \E i \in 0..(Len(s) - (Len(substr) - 1)) :
        SubSeq(s, i + 1, i + Len(substr) - 1) = Tail(substr)

\* strings.Contains(s, substr)
Contains(s, substr) ==
    \E i \in 0..(Len(s) - Len(substr)) : SubSeq(s, i + 1, i + Len(substr)) = substr

\* toFirstBatch that never looks at the index map.
ToFirstBatchIgnoreMap(statement, tableIndexPresent, skip) ==
    IF skip
    THEN statement.ObjectType = StrINDEX \/ statement.ObjectType = StrINDEX_METADATA
    ELSE statement.ObjectType = StrINDEX

\* toFirstBatch that forgets "INDEX METADATA" under skipIndex.
ToFirstBatchNoMetadata(statement, tableIndexPresent, skip) ==
    IF skip
    THEN statement.ObjectType = StrINDEX
    ELSE statement.ObjectType = StrINDEX /\ ~tableIndexPresent

\* lines 205-210: the value of toFirstBatch
ToFirstBatch(statement, tableIndexPresent, skip) ==
    LET toFirstBatch == statement.ObjectType = StrINDEX
    IN  IF skip
        THEN toFirstBatch \/ statement.ObjectType = StrINDEX_METADATA
        ELSE toFirstBatch /\ ~tableIndexPresent

\* A loop body that sends the metadata statements to the second batch.
BatchStepMetadataToSecond(acc, statement, skip) ==
    LET tableIndexPresent == statement.ReferenceObject \in acc.indexMap
    IN  IF ToFirstBatch(statement, tableIndexPresent, skip)
        THEN [acc EXCEPT !.indexMap = @ \cup {statement.ReferenceObject},
                         !.firstBatch = Append(@, statement)]
        ELSE [acc EXCEPT !.secondBatch = Append(@, statement)]

\* A loop body that drops the statements meant for the third batch.
BatchStepDropThird(acc, statement, skip) ==
    LET tableIndexPresent == statement.ReferenceObject \in acc.indexMap
    IN  IF ToFirstBatch(statement, tableIndexPresent, skip)
        THEN [acc EXCEPT !.indexMap = @ \cup {statement.ReferenceObject},
                         !.firstBatch = Append(@, statement)]
        ELSE IF Contains(statement.ObjectType, StrSpaceMETADATA)
        THEN acc
        ELSE [acc EXCEPT !.secondBatch = Append(@, statement)]

\* lines 203-219: one iteration of the loop. indexMap only ever maps to true
\* and is only tested for presence, so it is the set of its keys.
BatchStep(acc, statement, skip) ==
    LET tableIndexPresent == statement.ReferenceObject \in acc.indexMap
    IN  IF ToFirstBatch(statement, tableIndexPresent, skip)
        THEN [acc EXCEPT !.indexMap = @ \cup {statement.ReferenceObject},
                         !.firstBatch = Append(@, statement)]
        ELSE IF Contains(statement.ObjectType, StrSpaceMETADATA)
        THEN [acc EXCEPT !.thirdBatch = Append(@, statement)]
        ELSE [acc EXCEPT !.secondBatch = Append(@, statement)]

RECURSIVE BatchLoop(_, _, _, _)
\* lines 202-220: the range loop from position i on
BatchLoop(stmts, skip, i, acc) ==
    IF i > Len(stmts)
    THEN acc
    ELSE BatchLoop(stmts, skip, i + 1, BatchStep(acc, stmts[i], skip))

\* lines 197-222
BatchPostdataStatements(stmts, skip) ==
    BatchLoop(stmts, skip, 1,
              [indexMap |-> {}, firstBatch |-> <<>>, secondBatch |-> <<>>,
               thirdBatch |-> <<>>])

RECURSIVE SeqsUpTo(_, _)
SeqsUpTo(S, n) ==
    IF n = 0
    THEN {<<>>}
    ELSE LET shorter == SeqsUpTo(S, n - 1)
         IN  shorter \cup {Append(s, x) : s \in {t \in shorter : Len(t) = n - 1}, x \in S}

(***************************************************************************)
(* The engine's statements. ExecuteStatements reads of a statement its     *)
(* text (the identity id stands for it) and Schema+"."+Name (key).         *)
(***************************************************************************)
KeyOf(i) == i % NumNames

EngineStatements(k) == [i \in 1..k |-> [id |-> i, key |-> KeyOf(i)]]

Workers == 0..(MaxConns - 1)

StmtIds == 1..MaxStmts

Nil == 0

\* connectionPool.ValidateConnNum: no argument selects connection 0, a valid
\* argument is returned unchanged (an invalid one aborts; callers pass none).
ValidateConnNum(wc) == IF Len(wc) = 0 THEN 0 ELSE wc[1]

FileIdle ==
    /\ writeStmts = <<>>
    /\ file = <<>>
    /\ fileInit = <<>>
    /\ openFailed = FALSE

EmailIdle ==
    /\ homeFound = FALSE
    /\ gphomeFound = FALSE
    /\ homeContacts = <<>>
    /\ gphomeContacts = <<>>
    /\ epc = "off"
    /\ contactsFile = "none"
    /\ localCommands = <<>>
    /\ warned = FALSE

EngineIdle ==
    /\ execStmts = <<>>
    /\ numConns = 1
    /\ executeInParallel = FALSE
    /\ onErrorContinue = FALSE
    /\ whichConn = <<>>
    /\ wasTerminated = FALSE
    /\ tasks = <<>>
    /\ fatalErr = Nil
    /\ numErrors = 0
    /\ errorTablesMetadata = {}
    /\ mutexHolder = -1
    /\ progress = 0
    /\ mpc = "off"
    /\ spawnI = 0
    /\ goroutines = 0
    /\ ret = -1
    /\ wpc = [w \in Workers |-> "idle"]
    /\ wstmt = [w \in Workers |-> 0]
    /\ wconn = [w \in Workers |-> 0]
    /\ attempts = [i \in StmtIds |-> 0]
    /\ execConn = [i \in StmtIds |-> -1]
    /\ execWorker = [i \in StmtIds |-> -1]
    /\ outcome = [i \in StmtIds |-> "none"]
    /\ incremented = [i \in StmtIds |-> 0]
    /\ lateAttempts = [w \in Workers |-> 0]
    /\ FileIdle

BatchIdle ==
    /\ statements = <<>>
    /\ skipIndex = FALSE
    /\ firstBatch = <<>>
    /\ secondBatch = <<>>
    /\ thirdBatch = <<>>
    /\ bpc = "off"
    /\ batchNo = 0

(***************************************************************************)
(* SpecBatch: BatchPostdataStatements on every input of at most MaxLen     *)
(* statements and either skipIndex.                                        *)
(***************************************************************************)
InitBatch ==
    /\ statements \in SeqsUpTo(StatementWithType, MaxLen)
    /\ skipIndex \in BOOLEAN
    /\ firstBatch = <<>>
    /\ secondBatch = <<>>
    /\ thirdBatch = <<>>
    /\ bpc = "input"
    /\ batchNo = 0
    /\ EngineIdle
    /\ EmailIdle

CallBatchPostdataStatements ==
    /\ bpc = "input"
    /\ LET r == BatchPostdataStatements(statements, skipIndex)
       IN  /\ firstBatch' = r.firstBatch
           /\ secondBatch' = r.secondBatch
           /\ thirdBatch' = r.thirdBatch
    /\ bpc' = "done"
    /\ UNCHANGED <<emailVars, statements, skipIndex, batchNo, engineVars>>

NextBatch == CallBatchPostdataStatements

SpecBatch == InitBatch /\ [][NextBatch]_vars

(***************************************************************************)
(* Spec: one invocation of ExecuteStatements.                              *)
(*                                                                         *)
(* A worker is one call of executeStatementsForConn. In parallel mode      *)
(* worker w is the goroutine started with i = w; in serial mode worker 0   *)
(* is the call made by the caller's own thread. Positions of a worker:     *)
(*   "recv"      line 25, the receive of the range loop                    *)
(*   "check"     line 26                                                   *)
(*   "exec"      line 29, before connectionPool.Exec is entered            *)
(*   "inflight"  line 29, inside connectionPool.Exec                       *)
(*   "add"       line 34        "lock"    line 35                          *)
(*   "insert"    line 36        "unlock"  line 37                          *)
(*   "serialerr" lines 39-40    "setfatal" line 43                         *)
(*   "inc"       line 46        "done"    returned                         *)
(* An error value is named by the id of the statement whose Exec returned  *)
(* it. Memory is sequentially consistent: an unsynchronised read sees the  *)
(* latest write of the interleaving.                                       *)
(***************************************************************************)
Init ==
    /\ BatchIdle
    /\ \E k \in 0..MaxStmts : execStmts = EngineStatements(k)
    /\ numConns \in 1..MaxConns
    /\ executeInParallel \in BOOLEAN
    /\ onErrorContinue \in BOOLEAN
    /\ whichConn \in IF executeInParallel
                     THEN {<<>>}
                     ELSE {<<>>} \cup {<<c>> : c \in 0..(numConns - 1)}
    /\ wasTerminated = FALSE
    /\ tasks = <<>>
    /\ fatalErr = Nil
    /\ numErrors = 0
    /\ errorTablesMetadata = {}
    /\ mutexHolder = -1
    /\ progress = 0
    /\ mpc = "call"
    /\ spawnI = 0
    /\ goroutines = 0
    /\ ret = -1
    /\ wpc = [w \in Workers |-> "idle"]
    /\ wstmt = [w \in Workers |-> 0]
    /\ wconn = [w \in Workers |-> 0]
    /\ attempts = [i \in StmtIds |-> 0]
    /\ execConn = [i \in StmtIds |-> -1]
    /\ execWorker = [i \in StmtIds |-> -1]
    /\ outcome = [i \in StmtIds |-> "none"]
    /\ incremented = [i \in StmtIds |-> 0]
    /\ lateAttempts = [w \in Workers |-> 0]
    /\ FileIdle
    /\ EmailIdle

\* The signal handler sets wasTerminated at any moment of the invocation.
Terminate ==
    /\ mpc \in {"call", "spawn", "wait", "serial"}
    /\ ~wasTerminated
    /\ wasTerminated' = TRUE
    /\ UNCHANGED <<emailVars, batchVars, fileVars, inputVars, tasks, fatalErr, numErrors,
                   errorTablesMetadata, mutexHolder, progress, ctlVars, obsVars>>

\* An entry that keeps the error counter and the fatal-error slot of the
\* call before.
ExecuteStatementsEnterKeepsLocals ==
    /\ mpc = "call"
    /\ tasks' = execStmts
    /\ IF ~executeInParallel
       THEN /\ wconn' = [wconn EXCEPT ![0] = ValidateConnNum(whichConn)]
            /\ wpc' = [wpc EXCEPT ![0] = "recv"]
            /\ mpc' = "serial"
       ELSE /\ mpc' = "spawn"
            /\ UNCHANGED <<wconn, wpc>>
    /\ spawnI' = 0
    /\ UNCHANGED <<emailVars, batchVars, fileVars, inputVars, wasTerminated, fatalErr,
                   numErrors, errorTablesMetadata, mutexHolder, progress,
                   goroutines, ret, wstmt, obsVars>>

\* lines 82-94: the locals, the filled and closed channel, and in serial mode
\* the validated connection and the entry of the worker on this thread.
ExecuteStatementsEnter ==
    /\ mpc = "call"
    /\ fatalErr' = Nil
    /\ numErrors' = 0
    /\ tasks' = execStmts
    /\ IF ~executeInParallel
       THEN /\ wconn' = [wconn EXCEPT ![0] = ValidateConnNum(whichConn)]
            /\ wpc' = [wpc EXCEPT ![0] = "recv"]
            /\ mpc' = "serial"
       ELSE /\ mpc' = "spawn"
            /\ UNCHANGED <<wconn, wpc>>
    /\ spawnI' = 0
    /\ UNCHANGED <<emailVars, batchVars, fileVars, inputVars, wasTerminated, errorTablesMetadata,
                   mutexHolder, progress, goroutines, ret, wstmt, obsVars>>

\* A spawning loop whose goroutines all use connection 0.
SpawnOnConnZero ==
    /\ mpc = "spawn"
    /\ spawnI < numConns
    /\ wconn' = [wconn EXCEPT ![spawnI] = ValidateConnNum(<<0>>)]
    /\ wpc' = [wpc EXCEPT ![spawnI] = "recv"]
    /\ goroutines' = goroutines + 1
    /\ spawnI' = spawnI + 1
    /\ UNCHANGED <<emailVars, batchVars, fileVars, inputVars, sharedVars, mpc, ret, wstmt, obsVars>>

\* lines 95-101: one iteration of the spawning loop; the goroutine validates
\* its connection number (line 99) and enters the worker (line 100).
Spawn ==
    /\ mpc = "spawn"
    /\ spawnI < numConns
    /\ wconn' = [wconn EXCEPT ![spawnI] = ValidateConnNum(<<spawnI>>)]
    /\ wpc' = [wpc EXCEPT ![spawnI] = "recv"]
    /\ goroutines' = goroutines + 1
    /\ spawnI' = spawnI + 1
    /\ UNCHANGED <<emailVars, batchVars, fileVars, inputVars, sharedVars, mpc, ret, wstmt, obsVars>>

\* line 95 false, line 103 entered
SpawnLoopExit ==
    /\ mpc = "spawn"
    /\ spawnI >= numConns
    /\ mpc' = "wait"
    /\ UNCHANGED <<emailVars, batchVars, fileVars, inputVars, sharedVars, spawnI, goroutines, ret,
                   wpc, wstmt, wconn, obsVars>>

\* A join that does not wait for the workers.
WorkersFinishedNoWait == mpc \in {"wait", "serial"}

\* workerPool.Wait() returns, or the serial call returns.
WorkersFinished ==
    \/ mpc = "wait" /\ \A w \in 0..(numConns - 1) : wpc[w] = "done"
    \/ mpc = "serial" /\ wpc[0] = "done"

\* lines 103-113: the join, then gplog.Fatal or the return of numErrors.
ExecuteStatementsExit ==
    /\ WorkersFinished
    /\ IF fatalErr # Nil
       THEN mpc' = "fatal" /\ ret' = ret
       ELSE mpc' = "returned" /\ ret' = numErrors
    /\ UNCHANGED <<emailVars, batchVars, fileVars, inputVars, sharedVars, spawnI, goroutines,
                   wpc, wstmt, wconn, obsVars>>

\* A receive that leaves the statement in the channel.
ChanAfterRecvKeep(q) == q

\* line 25: the channel after a receive
ChanAfterRecv(q) == Tail(q)

\* A channel that hands out its newest element.
ChanRecvNewest(q) == q[Len(q)]

\* line 25: the value a receive delivers (the channel is first in, first out)
ChanRecvValue(q) == Head(q)

\* A receive that blocks on the empty channel, as if it were never closed.
RecvBlocksOnEmpty(w) ==
    /\ wpc[w] = "recv"
    /\ tasks # <<>>
    /\ wstmt' = [wstmt EXCEPT ![w] = ChanRecvValue(tasks).id]
    /\ tasks' = ChanAfterRecv(tasks)
    /\ wpc' = [wpc EXCEPT ![w] = "check"]
    /\ UNCHANGED <<emailVars, batchVars, fileVars, inputVars, wasTerminated,
                   fatalErr, numErrors, errorTablesMetadata, mutexHolder, progress,
                   mpc, spawnI, goroutines, ret, wconn, obsVars>>

\* line 25: receive from the closed channel; the loop ends when it is empty.
Recv(w) ==
    /\ wpc[w] = "recv"
    /\ IF tasks = <<>>
       THEN /\ wpc' = [wpc EXCEPT ![w] = "done"]
            /\ UNCHANGED <<tasks, wstmt>>
       ELSE /\ wstmt' = [wstmt EXCEPT ![w] = ChanRecvValue(tasks).id]
            /\ tasks' = ChanAfterRecv(tasks)
            /\ wpc' = [wpc EXCEPT ![w] = "check"]
    /\ UNCHANGED <<emailVars, batchVars, fileVars, inputVars, wasTerminated, fatalErr, numErrors,
                   errorTablesMetadata, mutexHolder, progress, mpc, spawnI,
                   goroutines, ret, wconn, obsVars>>

\* A loop-top check that forgets the termination flag.
MustStopIgnoresTermination(terminated, fatal) == fatal # Nil

\* A loop-top check that forgets the fatal-error slot.
MustStopIgnoresFatal(terminated, fatal) == terminated

\* line 26: whether the worker returns without touching the statement
MustStop(terminated, fatal) == terminated \/ fatal # Nil

\* lines 26-28
Check(w) ==
    /\ wpc[w] = "check"
    /\ IF MustStop(wasTerminated, fatalErr)
       THEN /\ wpc' = [wpc EXCEPT ![w] = "done"]
            /\ wstmt' = [wstmt EXCEPT ![w] = 0]
       ELSE /\ wpc' = [wpc EXCEPT ![w] = "exec"]
            /\ wstmt' = wstmt
    /\ UNCHANGED <<emailVars, batchVars, fileVars, inputVars, sharedVars, mpc, spawnI, goroutines,
                   ret, wconn, obsVars>>

\* line 29: connectionPool.Exec(statement.Statement, whichConn) is entered.
ExecCall(w) ==
    /\ wpc[w] = "exec"
    /\ attempts' = [attempts EXCEPT ![wstmt[w]] = @ + 1]
    /\ execConn' = [execConn EXCEPT ![wstmt[w]] = wconn[w]]
    /\ execWorker' = [execWorker EXCEPT ![wstmt[w]] = w]
    /\ lateAttempts' = [lateAttempts EXCEPT ![w] = IF fatalErr # Nil THEN @ + 1 ELSE @]
    /\ wpc' = [wpc EXCEPT ![w] = "inflight"]
    /\ UNCHANGED <<emailVars, batchVars, fileVars, inputVars, sharedVars, mpc, spawnI, goroutines,
                   ret, wstmt, wconn, outcome, incremented>>

\* lines 30-45: the branch taken once Exec has returned
AfterExec(failed, continue, parallel) ==
    IF ~failed
    THEN "inc"
    ELSE IF continue
    THEN IF parallel THEN "add" ELSE "serialerr"
    ELSE "setfatal"

\* lines 29-33, 42: connectionPool.Exec returns, with an error or without.
ExecReturn(w) ==
    /\ wpc[w] = "inflight"
    /\ \E failed \in BOOLEAN :
          /\ outcome' = [outcome EXCEPT ![wstmt[w]] = IF failed THEN "err" ELSE "ok"]
          /\ wpc' = [wpc EXCEPT ![w] = AfterExec(failed, onErrorContinue,
                                                 executeInParallel)]
    /\ UNCHANGED <<emailVars, batchVars, fileVars, inputVars, sharedVars, mpc, spawnI, goroutines,
                   ret, wstmt, wconn, attempts, execConn, execWorker, incremented,
                   lateAttempts>>

\* An increment that is lost.
NumErrorsUnchanged(n) == n

\* lines 34 and 39: the counter after one more error (int32; the statements
\* of the model are far fewer than 2^31)
NumErrorsPlusOne(n) == n + 1

\* line 34: atomic.AddInt32(numErrors, 1)
AtomicAdd(w) ==
    /\ wpc[w] = "add"
    /\ numErrors' = NumErrorsPlusOne(numErrors)
    /\ wpc' = [wpc EXCEPT ![w] = "lock"]
    /\ UNCHANGED <<emailVars, batchVars, fileVars, inputVars, wasTerminated, tasks, fatalErr,
                   errorTablesMetadata, mutexHolder, progress, mpc, spawnI,
                   goroutines, ret, wstmt, wconn, obsVars>>

\* line 35: mutex.Lock()
Lock(w) ==
    /\ wpc[w] = "lock"
    /\ mutexHolder = -1
    /\ mutexHolder' = w
    /\ wpc' = [wpc EXCEPT ![w] = "insert"]
    /\ UNCHANGED <<emailVars, batchVars, fileVars, inputVars, wasTerminated, tasks, fatalErr, numErrors,
                   errorTablesMetadata, progress, mpc, spawnI, goroutines, ret,
                   wstmt, wconn, obsVars>>

\* lines 25, 36, 40: the statement the worker received and still holds
Held(w) ==
    CHOOSE s \in {execStmts[p] : p \in DOMAIN execStmts} : s.id = wstmt[w]

\* An error branch that leaves the failed-object set as it is.
InsertSkipped(w) ==
    /\ wpc[w] = "insert"
    /\ wpc' = [wpc EXCEPT ![w] = "unlock"]
    /\ UNCHANGED <<emailVars, batchVars, fileVars, inputVars, sharedVars, mpc,
                   spawnI, goroutines, ret, wstmt, wconn, obsVars>>

\* line 36: errorTablesMetadata[statement.Schema+"."+statement.Name] = Empty{}
Insert(w) ==
    /\ wpc[w] = "insert"
    /\ errorTablesMetadata' = errorTablesMetadata \cup {Held(w).key}
    /\ wpc' = [wpc EXCEPT ![w] = "unlock"]
    /\ UNCHANGED <<emailVars, batchVars, fileVars, inputVars, wasTerminated, tasks, fatalErr, numErrors,
                   mutexHolder, progress, mpc, spawnI, goroutines, ret, wstmt,
                   wconn, obsVars>>

\* An error branch that goes on without releasing the mutex.
UnlockKeepsMutex(w) ==
    /\ wpc[w] = "unlock"
    /\ wpc' = [wpc EXCEPT ![w] = "inc"]
    /\ UNCHANGED <<emailVars, batchVars, fileVars, inputVars, sharedVars, mpc,
                   spawnI, goroutines, ret, wstmt, wconn, obsVars>>

\* line 37: mutex.Unlock()
Unlock(w) ==
    /\ wpc[w] = "unlock"
    /\ mutexHolder' = -1
    /\ wpc' = [wpc EXCEPT ![w] = "inc"]
    /\ UNCHANGED <<emailVars, batchVars, fileVars, inputVars, wasTerminated, tasks, fatalErr, numErrors,
                   errorTablesMetadata, progress, mpc, spawnI, goroutines, ret,
                   wstmt, wconn, obsVars>>

\* lines 39-40: the serial branch, counter and map without synchronisation
SerialError(w) ==
    /\ wpc[w] = "serialerr"
    /\ numErrors' = NumErrorsPlusOne(numErrors)
    /\ errorTablesMetadata' = errorTablesMetadata \cup {Held(w).key}
    /\ wpc' = [wpc EXCEPT ![w] = "inc"]
    /\ UNCHANGED <<emailVars, batchVars, fileVars, inputVars, wasTerminated, tasks, fatalErr,
                   mutexHolder, progress, mpc, spawnI, goroutines, ret, wstmt,
                   wconn, obsVars>>

\* A store that never reaches the slot.
FatalErrStoreLost(old, err) == old

\* line 43: the slot after *fatalErr = err
FatalErrAfterStore(old, err) == err

\* line 43: *fatalErr = err
SetFatal(w) ==
    /\ wpc[w] = "setfatal"
    /\ fatalErr' = FatalErrAfterStore(fatalErr, wstmt[w])
    /\ wpc' = [wpc EXCEPT ![w] = "inc"]
    /\ UNCHANGED <<emailVars, batchVars, fileVars, inputVars, wasTerminated, tasks, numErrors,
                   errorTablesMetadata, mutexHolder, progress, mpc, spawnI,
                   goroutines, ret, wstmt, wconn, obsVars>>

\* A loop body that goes back to the receive without calling Increment.
IncrementNotCalled(w) ==
    /\ wpc[w] = "inc"
    /\ wstmt' = [wstmt EXCEPT ![w] = 0]
    /\ wpc' = [wpc EXCEPT ![w] = "recv"]
    /\ UNCHANGED <<emailVars, batchVars, fileVars, inputVars, sharedVars, mpc, spawnI, goroutines, ret,
                   wconn, obsVars>>

\* line 46: progressBar.Increment(), then back to the receive
Increment(w) ==
    /\ wpc[w] = "inc"
    /\ progress' = progress + 1
    /\ incremented' = [incremented EXCEPT ![wstmt[w]] = @ + 1]
    /\ wstmt' = [wstmt EXCEPT ![w] = 0]
    /\ wpc' = [wpc EXCEPT ![w] = "recv"]
    /\ UNCHANGED <<emailVars, batchVars, fileVars, inputVars, wasTerminated, tasks, fatalErr, numErrors,
                   errorTablesMetadata, mutexHolder, mpc, spawnI, goroutines, ret,
                   wconn, attempts, execConn, execWorker, outcome, lateAttempts>>

Next ==
    \/ Terminate
    \/ ExecuteStatementsEnter
    \/ Spawn
    \/ SpawnLoopExit
    \/ ExecuteStatementsExit
    \/ \E w \in Workers : Recv(w)
    \/ \E w \in Workers : Check(w)
    \/ \E w \in Workers : ExecCall(w)
    \/ \E w \in Workers : ExecReturn(w)
    \/ \E w \in Workers : AtomicAdd(w)
    \/ \E w \in Workers : Lock(w)
    \/ \E w \in Workers : Insert(w)
    \/ \E w \in Workers : Unlock(w)
    \/ \E w \in Workers : SerialError(w)
    \/ \E w \in Workers : SetFatal(w)
    \/ \E w \in Workers : Increment(w)

Spec == Init /\ [][Next]_vars

(***************************************************************************)
(* SpecWrite: one invocation of WriteStatements. The workers are calls of  *)
(* writeStatements, with the positions of executeStatementsForConn under a *)
(* "w" prefix: "wrecv" line 52, "wcheck" line 53, "write" line 56 before   *)
(* WriteAt is entered, "writing" inside WriteAt, "wadd" line 61, "wlock"   *)
(* line 62, "winsert" line 63, "wunlock" line 64, "wserialerr" lines       *)
(* 66-67, "wsetfatal" line 70, "winc" line 73.                             *)
(*                                                                         *)
(* A file is the sequence of its bytes. The text of statement i is         *)
(* TextLen(i) bytes 10*i+1, 10*i+2, ...; a byte of the file as it was      *)
(* before the call is -1; a byte the file system fills in is 0.            *)
(***************************************************************************)
TextLen(i) == 1 + (i % 2)

TextOf(i) == [j \in 1..TextLen(i) |-> 10 * i + j]

RECURSIVE SumLen(_)
\* The bytes, gaps included, taken by the statements of the set S.
SumLen(S) ==
    IF S = {}
    THEN 0
    ELSE LET i == CHOOSE x \in S : TRUE
         IN  TextLen(i) + Gap + SumLen(S \ {i})

StatementWithOffset(i, off) ==
    [id |-> i, key |-> KeyOf(i), Offset |-> off, Statement |-> TextOf(i)]

\* The inputs: k statements at pairwise disjoint ranges, laid out in slice
\* order or against it.
WriteInputs(k) ==
    { [i \in 1..k |-> StatementWithOffset(i, SumLen(1..(i - 1)))],
      [i \in 1..k |-> StatementWithOffset(i, SumLen((i + 1)..k))] }

OldFiles == {<<>>, [p \in 1..OldLen |-> -1]}

\* The bytes b put into f from offset off on (offsets count from 0).
PutBytes(f, b, off) ==
    LET end == IF off + Len(b) > Len(f) THEN off + Len(b) ELSE Len(f)
    IN  [p \in 1..end |->
            IF p > off /\ p <= off + Len(b)
            THEN b[p - off]
            ELSE IF p <= Len(f) THEN f[p] ELSE 0]

\* A write at the start of the file, whatever the offset.
WriteAtOffsetZero(f, b, off) == PutBytes(f, b, 0)

\* line 56: the file after outputFile.WriteAt(b, off) has written all of b
WriteAt(f, b, off) == PutBytes(f, b, off)

InitWrite ==
    /\ BatchIdle
    /\ execStmts = <<>>
    /\ numConns \in 1..MaxConns
    /\ executeInParallel \in BOOLEAN
    /\ onErrorContinue \in BOOLEAN
    /\ whichConn = <<>>
    /\ wasTerminated = FALSE
    /\ tasks = <<>>
    /\ fatalErr = Nil
    /\ numErrors = 0
    /\ errorTablesMetadata = {}
    /\ mutexHolder = -1
    /\ progress = 0
    /\ mpc = "wcall"
    /\ spawnI = 0
    /\ goroutines = 0
    /\ ret = -1
    /\ wpc = [w \in Workers |-> "idle"]
    /\ wstmt = [w \in Workers |-> 0]
    /\ wconn = [w \in Workers |-> 0]
    /\ attempts = [i \in StmtIds |-> 0]
    /\ execConn = [i \in StmtIds |-> -1]
    /\ execWorker = [i \in StmtIds |-> -1]
    /\ outcome = [i \in StmtIds |-> "none"]
    /\ incremented = [i \in StmtIds |-> 0]
    /\ lateAttempts = [w \in Workers |-> 0]
    /\ \E k \in 0..MaxWStmts : writeStmts \in WriteInputs(k)
    /\ fileInit \in OldFiles
    /\ file = fileInit
    /\ openFailed = FALSE
    /\ EmailIdle

\* The signal handler, during an invocation of WriteStatements.
WTerminate ==
    /\ mpc \in {"wcall", "wspawn", "wwait", "wserial"}
    /\ ~wasTerminated
    /\ wasTerminated' = TRUE
    /\ UNCHANGED <<emailVars, batchVars, fileVars, inputVars, tasks, fatalErr, numErrors,
                   errorTablesMetadata, mutexHolder, progress, ctlVars, obsVars>>

\* A failed open that is never fatal.
AfterOpenNeverFatal(failed, continue, parallel) ==
    IF parallel THEN "wspawn" ELSE "wserial"

\* lines 140-151: where WriteStatements goes once os.OpenFile has returned
AfterOpen(failed, continue, parallel) ==
    IF failed /\ ~continue
    THEN "fatal"
    ELSE IF parallel THEN "wspawn" ELSE "wserial"

\* A failed open that is not counted.
NumErrorsAfterOpenZero(failed, continue) == 0

\* lines 132, 140-143: numErrors once os.OpenFile has returned
NumErrorsAfterOpen(failed, continue) ==
    IF failed /\ continue THEN NumErrorsPlusOne(0) ELSE 0

\* lines 130-150: the locals, the filled and closed channel, os.OpenFile
\* (which creates a missing file empty and truncates nothing), its error
\* handled under the policy, and in serial mode the entry of the worker.
WriteStatementsEnter ==
    /\ mpc = "wcall"
    /\ fatalErr' = Nil
    /\ tasks' = writeStmts
    /\ \E failed \in BOOLEAN :
          /\ openFailed' = failed
          /\ numErrors' = NumErrorsAfterOpen(failed, onErrorContinue)
          /\ mpc' = AfterOpen(failed, onErrorContinue, executeInParallel)
    /\ wpc' = IF mpc' = "wserial" THEN [wpc EXCEPT ![0] = "wrecv"] ELSE wpc
    /\ spawnI' = 0
    /\ UNCHANGED <<emailVars, batchVars, writeStmts, file, fileInit, inputVars, wasTerminated,
                   errorTablesMetadata, mutexHolder, progress, goroutines, ret,
                   wstmt, wconn, obsVars>>

\* lines 152-158: one iteration of the spawning loop
WSpawn ==
    /\ mpc = "wspawn"
    /\ spawnI < numConns
    /\ wpc' = [wpc EXCEPT ![spawnI] = "wrecv"]
    /\ goroutines' = goroutines + 1
    /\ spawnI' = spawnI + 1
    /\ UNCHANGED <<emailVars, batchVars, fileVars, inputVars, sharedVars, mpc, ret, wstmt,
                   wconn, obsVars>>

\* line 152 false, line 159 entered
WSpawnLoopExit ==
    /\ mpc = "wspawn"
    /\ spawnI >= numConns
    /\ mpc' = "wwait"
    /\ UNCHANGED <<emailVars, batchVars, fileVars, inputVars, sharedVars, spawnI, goroutines,
                   ret, wpc, wstmt, wconn, obsVars>>

\* workerPool.Wait() returns, or the serial call returns.
WWorkersFinished ==
    \/ mpc = "wwait" /\ \A w \in 0..(numConns - 1) : wpc[w] = "done"
    \/ mpc = "wserial" /\ wpc[0] = "done"

\* lines 159-169: the join, then gplog.Fatal or the return of numErrors.
WriteStatementsExit ==
    /\ WWorkersFinished
    /\ IF fatalErr # Nil
       THEN mpc' = "fatal" /\ ret' = ret
       ELSE mpc' = "returned" /\ ret' = numErrors
    /\ UNCHANGED <<emailVars, batchVars, fileVars, inputVars, sharedVars, spawnI, goroutines,
                   wpc, wstmt, wconn, obsVars>>

\* line 52
WRecv(w) ==
    /\ wpc[w] = "wrecv"
    /\ IF tasks = <<>>
       THEN /\ wpc' = [wpc EXCEPT ![w] = "done"]
            /\ UNCHANGED <<tasks, wstmt>>
       ELSE /\ wstmt' = [wstmt EXCEPT ![w] = ChanRecvValue(tasks).id]
            /\ tasks' = ChanAfterRecv(tasks)
            /\ wpc' = [wpc EXCEPT ![w] = "wcheck"]
    /\ UNCHANGED <<emailVars, batchVars, fileVars, inputVars, wasTerminated, fatalErr,
                   numErrors, errorTablesMetadata, mutexHolder, progress, mpc,
                   spawnI, goroutines, ret, wconn, obsVars>>

\* lines 53-55
WCheck(w) ==
    /\ wpc[w] = "wcheck"
    /\ IF MustStop(wasTerminated, fatalErr)
       THEN /\ wpc' = [wpc EXCEPT ![w] = "done"]
            /\ wstmt' = [wstmt EXCEPT ![w] = 0]
       ELSE /\ wpc' = [wpc EXCEPT ![w] = "write"]
            /\ wstmt' = wstmt
    /\ UNCHANGED <<emailVars, batchVars, fileVars, inputVars, sharedVars, mpc, spawnI,
                   goroutines, ret, wconn, obsVars>>

\* line 56: outputFile.WriteAt([]byte(statement.Statement), statement.Offset)
\* is entered.
WriteCall(w) ==
    /\ wpc[w] = "write"
    /\ attempts' = [attempts EXCEPT ![wstmt[w]] = @ + 1]
    /\ execWorker' = [execWorker EXCEPT ![wstmt[w]] = w]
    /\ lateAttempts' = [lateAttempts EXCEPT ![w] = IF fatalErr # Nil THEN @ + 1 ELSE @]
    /\ wpc' = [wpc EXCEPT ![w] = "writing"]
    /\ UNCHANGED <<emailVars, batchVars, fileVars, inputVars, sharedVars, mpc, spawnI,
                   goroutines, ret, wstmt, wconn, execConn, outcome, incremented>>

\* lines 57-72: the branch taken once WriteAt has returned
AfterWrite(failed, continue, parallel) ==
    IF ~failed
    THEN "winc"
    ELSE IF continue
    THEN IF parallel THEN "wadd" ELSE "wserialerr"
    ELSE "wsetfatal"

\* lines 56-60, 69: WriteAt returns. On the nil file of a failed open it
\* fails and writes nothing; on an open file it writes all the bytes, or
\* fails after writing n of them.
WriteReturn(w) ==
    /\ wpc[w] = "writing"
    /\ LET st == writeStmts[wstmt[w]]
       IN  \E failed \in BOOLEAN :
              /\ openFailed => failed
              /\ IF ~failed
                 THEN file' = WriteAt(file, st.Statement, st.Offset)
                 ELSE IF openFailed
                 THEN file' = file
                 ELSE \E n \in 0..(Len(st.Statement) - 1) :
                         file' = WriteAt(file, SubSeq(st.Statement, 1, n), st.Offset)
              /\ outcome' = [outcome EXCEPT ![wstmt[w]] = IF failed THEN "err" ELSE "ok"]
              /\ wpc' = [wpc EXCEPT ![w] = AfterWrite(failed, onErrorContinue,
                                                      executeInParallel)]
    /\ UNCHANGED <<emailVars, batchVars, writeStmts, fileInit, openFailed, inputVars,
                   sharedVars, mpc, spawnI, goroutines, ret, wstmt, wconn, attempts,
                   execConn, execWorker, incremented, lateAttempts>>

\* line 61: atomic.AddInt32(numErrors, 1)
WAtomicAdd(w) ==
    /\ wpc[w] = "wadd"
    /\ numErrors' = NumErrorsPlusOne(numErrors)
    /\ wpc' = [wpc EXCEPT ![w] = "wlock"]
    /\ UNCHANGED <<emailVars, batchVars, fileVars, inputVars, wasTerminated, tasks, fatalErr,
                   errorTablesMetadata, mutexHolder, progress, mpc, spawnI,
                   goroutines, ret, wstmt, wconn, obsVars>>

\* line 62: mutex.Lock()
WLock(w) ==
    /\ wpc[w] = "wlock"
    /\ mutexHolder = -1
    /\ mutexHolder' = w
    /\ wpc' = [wpc EXCEPT ![w] = "winsert"]
    /\ UNCHANGED <<emailVars, batchVars, fileVars, inputVars, wasTerminated, tasks, fatalErr,
                   numErrors, errorTablesMetadata, progress, mpc, spawnI,
                   goroutines, ret, wstmt, wconn, obsVars>>

\* line 63
WInsert(w) ==
    /\ wpc[w] = "winsert"
    /\ errorTablesMetadata' = errorTablesMetadata \cup {writeStmts[wstmt[w]].key}
    /\ wpc' = [wpc EXCEPT ![w] = "wunlock"]
    /\ UNCHANGED <<emailVars, batchVars, fileVars, inputVars, wasTerminated, tasks, fatalErr,
                   numErrors, mutexHolder, progress, mpc, spawnI, goroutines, ret,
                   wstmt, wconn, obsVars>>

\* line 64: mutex.Unlock()
WUnlock(w) ==
    /\ wpc[w] = "wunlock"
    /\ mutexHolder' = -1
    /\ wpc' = [wpc EXCEPT ![w] = "winc"]
    /\ UNCHANGED <<emailVars, batchVars, fileVars, inputVars, wasTerminated, tasks, fatalErr,
                   numErrors, errorTablesMetadata, progress, mpc, spawnI,
                   goroutines, ret, wstmt, wconn, obsVars>>

\* lines 66-67
WSerialError(w) ==
    /\ wpc[w] = "wserialerr"
    /\ numErrors' = NumErrorsPlusOne(numErrors)
    /\ errorTablesMetadata' = errorTablesMetadata \cup {writeStmts[wstmt[w]].key}
    /\ wpc' = [wpc EXCEPT ![w] = "winc"]
    /\ UNCHANGED <<emailVars, batchVars, fileVars, inputVars, wasTerminated, tasks, fatalErr,
                   mutexHolder, progress, mpc, spawnI, goroutines, ret, wstmt,
                   wconn, obsVars>>

\* line 70: *fatalErr = err
WSetFatal(w) ==
    /\ wpc[w] = "wsetfatal"
    /\ fatalErr' = FatalErrAfterStore(fatalErr, wstmt[w])
    /\ wpc' = [wpc EXCEPT ![w] = "winc"]
    /\ UNCHANGED <<emailVars, batchVars, fileVars, inputVars, wasTerminated, tasks, numErrors,
                   errorTablesMetadata, mutexHolder, progress, mpc, spawnI,
                   goroutines, ret, wstmt, wconn, obsVars>>

\* line 73: progressBar.Increment(), then back to the receive
WIncrement(w) ==
    /\ wpc[w] = "winc"
    /\ progress' = progress + 1
    /\ incremented' = [incremented EXCEPT ![wstmt[w]] = @ + 1]
    /\ wstmt' = [wstmt EXCEPT ![w] = 0]
    /\ wpc' = [wpc EXCEPT ![w] = "wrecv"]
    /\ UNCHANGED <<emailVars, batchVars, fileVars, inputVars, wasTerminated, tasks, fatalErr,
                   numErrors, errorTablesMetadata, mutexHolder, mpc, spawnI,
                   goroutines, ret, wconn, attempts, execConn, execWorker, outcome,
                   lateAttempts>>

NextWrite ==
    \/ WTerminate
    \/ WriteStatementsEnter
    \/ WSpawn
    \/ WSpawnLoopExit
    \/ WriteStatementsExit
    \/ \E w \in Workers : WRecv(w)
    \/ \E w \in Workers : WCheck(w)
    \/ \E w \in Workers : WriteCall(w)
    \/ \E w \in Workers : WriteReturn(w)
    \/ \E w \in Workers : WAtomicAdd(w)
    \/ \E w \in Workers : WLock(w)
    \/ \E w \in Workers : WInsert(w)
    \/ \E w \in Workers : WUnlock(w)
    \/ \E w \in Workers : WSerialError(w)
    \/ \E w \in Workers : WSetFatal(w)
    \/ \E w \in Workers : WIncrement(w)

SpecWrite == InitWrite /\ [][NextWrite]_vars

\* Either engine, one invocation.
SpecEngines == (Init \/ InitWrite) /\ [][Next \/ NextWrite]_vars

(***************************************************************************)
(* SpecEnginesFair: SpecEngines with the scheduling the Go runtime and the *)
(* environment give. The calling goroutine and each worker goroutine that  *)
(* can take a step eventually takes one: the scheduler is preemptive, a    *)
(* goroutine blocked in Lock is woken when the mutex is released, and each *)
(* single Exec or WriteAt is taken to return. Nothing is assumed about the *)
(* signal handler.                                                         *)
(***************************************************************************)
\* A step of the goroutine that called the engine.
MainStep ==
    \/ ExecuteStatementsEnter
    \/ Spawn
    \/ SpawnLoopExit
    \/ ExecuteStatementsExit
    \/ WriteStatementsEnter
    \/ WSpawn
    \/ WSpawnLoopExit
    \/ WriteStatementsExit

\* A step of worker w.
WorkerStep(w) ==
    \/ Recv(w) \/ Check(w) \/ ExecCall(w) \/ ExecReturn(w) \/ AtomicAdd(w)
    \/ Lock(w) \/ Insert(w) \/ Unlock(w) \/ SerialError(w) \/ SetFatal(w)
    \/ Increment(w)
    \/ WRecv(w) \/ WCheck(w) \/ WriteCall(w) \/ WriteReturn(w) \/ WAtomicAdd(w)
    \/ WLock(w) \/ WInsert(w) \/ WUnlock(w) \/ WSerialError(w) \/ WSetFatal(w)
    \/ WIncrement(w)

Fairness == WF_vars(MainStep) /\ \A w \in Workers : WF_vars(WorkerStep(w))

SpecEnginesFair == SpecEngines /\ Fairness

(***************************************************************************)
(* SpecPipeline: the restore of postdata. The caller applies               *)
(* BatchPostdataStatements once and hands the first, the second and the    *)
(* third batch to ExecuteStatements, in parallel mode, one call after the  *)
(* other. A statement keeps its position in the input as its id. What the *)
(* caller does once termination has been requested is not part of          *)
(* parallel.go: the pipeline runs with no termination requested.           *)
(***************************************************************************)
MaxPipeLen == 2

\* The kinds of statement the batching tells apart, all of one reference
\* object: an index, its metadata, another object and its metadata.
PipeKinds ==
    { <<StrINDEX, "t1">>, <<StrINDEX_METADATA, "t1">>,
      <<StrRULE, "t1">>, <<StrRULE_METADATA, "t1">> }

PipeInputs ==
    UNION { { [i \in 1..n |-> [id |-> i, key |-> KeyOf(i), ObjectType |-> f[i][1],
                               ReferenceObject |-> f[i][2]]] :
              f \in [1..n -> PipeKinds] } : n \in 0..MaxPipeLen }

InitPipeline ==
    /\ statements \in PipeInputs
    /\ skipIndex \in BOOLEAN
    /\ firstBatch = <<>>
    /\ secondBatch = <<>>
    /\ thirdBatch = <<>>
    /\ bpc = "input"
    /\ batchNo = 0
    /\ execStmts = <<>>
    /\ numConns = MaxConns
    /\ executeInParallel \in BOOLEAN
    /\ onErrorContinue \in BOOLEAN
    /\ whichConn = <<>>
    /\ wasTerminated = FALSE
    /\ tasks = <<>>
    /\ fatalErr = Nil
    /\ numErrors = 0
    /\ errorTablesMetadata = {}
    /\ mutexHolder = -1
    /\ progress = 0
    /\ mpc = "off"
    /\ spawnI = 0
    /\ goroutines = 0
    /\ ret = -1
    /\ wpc = [w \in Workers |-> "idle"]
    /\ wstmt = [w \in Workers |-> 0]
    /\ wconn = [w \in Workers |-> 0]
    /\ attempts = [i \in StmtIds |-> 0]
    /\ execConn = [i \in StmtIds |-> -1]
    /\ execWorker = [i \in StmtIds |-> -1]
    /\ outcome = [i \in StmtIds |-> "none"]
    /\ incremented = [i \in StmtIds |-> 0]
    /\ lateAttempts = [w \in Workers |-> 0]
    /\ FileIdle
    /\ EmailIdle

\* The b-th of the three slices BatchPostdataStatements returned.
Batch(b) ==
    IF b = 1 THEN firstBatch ELSE IF b = 2 THEN secondBatch ELSE thirdBatch

\* The caller hands the next batch to ExecuteStatements, the call before it
\* having returned. The goroutines, the channel and the WaitGroup of that
\* call are gone; its locals are set anew by ExecuteStatementsEnter. What
\* is recorded about connections and workers is recorded per invocation.
CallExecuteStatements ==
    /\ bpc = "done"
    /\ batchNo < 3
    /\ mpc \in {"off", "returned"}
    /\ batchNo' = batchNo + 1
    /\ execStmts' = Batch(batchNo + 1)
    /\ mpc' = "call"
    /\ spawnI' = 0
    /\ goroutines' = 0
    /\ ret' = -1
    /\ wpc' = [w \in Workers |-> "idle"]
    /\ wstmt' = [w \in Workers |-> 0]
    /\ wconn' = [w \in Workers |-> 0]
    /\ UNCHANGED <<emailVars, statements, skipIndex, firstBatch, secondBatch, thirdBatch, bpc,
                   fileVars, numConns, executeInParallel, onErrorContinue,
                   whichConn, sharedVars, attempts, outcome, incremented>>
    /\ execConn' = [i \in StmtIds |-> -1]
    /\ execWorker' = [i \in StmtIds |-> -1]
    /\ lateAttempts' = [w \in Workers |-> 0]

NextPipeline ==
    \/ CallBatchPostdataStatements
    \/ CallExecuteStatements
    \/ ExecuteStatementsEnter
    \/ Spawn
    \/ SpawnLoopExit
    \/ ExecuteStatementsExit
    \/ \E w \in Workers : Recv(w)
    \/ \E w \in Workers : Check(w)
    \/ \E w \in Workers : ExecCall(w)
    \/ \E w \in Workers : ExecReturn(w)
    \/ \E w \in Workers : AtomicAdd(w)
    \/ \E w \in Workers : Lock(w)
    \/ \E w \in Workers : Insert(w)
    \/ \E w \in Workers : Unlock(w)
    \/ \E w \in Workers : SerialError(w)
    \/ \E w \in Workers : SetFatal(w)
    \/ \E w \in Workers : Increment(w)

SpecPipeline == InitPipeline /\ [][NextPipeline]_vars

\* The sequence of invocations of ExecuteStatements, or one invocation of
\* WriteStatements.
SpecBlocking == (InitPipeline \/ InitWrite) /\ [][NextPipeline \/ NextWrite]_vars

(***************************************************************************)
(* SpecEmail: one call of utils.EmailReport, as the tests of               *)
(* report_test.go:362-422 show it through the commands the executor        *)
(* receives. A command is a record of its text and, for sendmail, of the   *)
(* addresses on the To: line of the message.                               *)
(***************************************************************************)
MaxContacts == 2

Addresses == {"contact1@example.com", "contact2@example.org"}

\* The contents of a contacts file: at least one address.
ContactLists == UNION { [1..n -> Addresses] : n \in 1..MaxContacts }

\* report_test.go:364
HomeCmd == [cmd |-> "test -f home/mail_contacts", to |-> <<>>]

\* report_test.go:365
GpHomeCmd == [cmd |-> "test -f gphome/bin/mail_contacts", to |-> <<>>]

\* report_test.go:366-376
Message(contacts) == [cmd |-> "sendmail -t", to |-> contacts]

InitEmail ==
    /\ BatchIdle
    /\ EngineIdle
    /\ homeFound \in BOOLEAN
    /\ gphomeFound \in BOOLEAN
    /\ homeContacts \in ContactLists
    /\ gphomeContacts \in ContactLists
    /\ epc = "testHome"
    /\ contactsFile = "none"
    /\ localCommands = <<>>
    /\ warned = FALSE

\* A first test after which the second file is always tested.
AfterHomeTestAlwaysGpHome(found) == "testGpHome"

\* Where EmailReport goes once "test -f $HOME/mail_contacts" has returned.
AfterHomeTest(found) == IF found THEN "send" ELSE "testGpHome"

\* Where it goes once "test -f $GPHOME/bin/mail_contacts" has returned.
AfterGpHomeTest(found) == IF found THEN "send" ELSE "warn"

TestHome ==
    /\ epc = "testHome"
    /\ localCommands' = Append(localCommands, HomeCmd)
    /\ epc' = AfterHomeTest(homeFound)
    /\ contactsFile' = IF homeFound THEN "home" ELSE contactsFile
    /\ UNCHANGED <<batchVars, engineVars, homeFound, gphomeFound, homeContacts,
                   gphomeContacts, warned>>

TestGpHome ==
    /\ epc = "testGpHome"
    /\ localCommands' = Append(localCommands, GpHomeCmd)
    /\ epc' = AfterGpHomeTest(gphomeFound)
    /\ contactsFile' = IF contactsFile = "none" /\ gphomeFound
                       THEN "gphome"
                       ELSE contactsFile
    /\ UNCHANGED <<batchVars, engineVars, homeFound, gphomeFound, homeContacts,
                   gphomeContacts, warned>>

\* The report is sent to the addresses of the file found.
SendEmail ==
    /\ epc = "send"
    /\ localCommands' =
          Append(localCommands,
                 Message(IF contactsFile = "home" THEN homeContacts
                                                  ELSE gphomeContacts))
    /\ epc' = "done"
    /\ UNCHANGED <<batchVars, engineVars, homeFound, gphomeFound, homeContacts,
                   gphomeContacts, contactsFile, warned>>

\* "Found neither gphome/bin/mail_contacts nor home/mail_contacts"
WarnNoContacts ==
    /\ epc = "warn"
    /\ warned' = TRUE
    /\ epc' = "done"
    /\ UNCHANGED <<batchVars, engineVars, homeFound, gphomeFound, homeContacts,
                   gphomeContacts, contactsFile, localCommands>>

NextEmail ==
    \/ TestHome
    \/ TestGpHome
    \/ SendEmail
    \/ WarnNoContacts

SpecEmail == InitEmail /\ [][NextEmail]_vars

(***************************************************************************)
(* Properties of BatchPostdataStatements, checked under SpecBatch.         *)
(***************************************************************************)
RECURSIVE Picked(_, _, _, _)
\* The subsequence of s at the positions from i on that f sends to b.
Picked(s, f, b, i) ==
    IF i > Len(s)
    THEN <<>>
    ELSE IF f[i] = b
    THEN <<s[i]>> \o Picked(s, f, b, i + 1)
    ELSE Picked(s, f, b, i + 1)

IsIndexOf(x, ref) == x.ObjectType = StrINDEX /\ x.ReferenceObject = ref

\* The object types of the model that hold the substring " METADATA".
IsMetadataType(t) == t \in {StrINDEX_METADATA, StrRULE_METADATA}

\* C1: the three batches partition the input: some assignment of every input
\* position to exactly one batch makes each batch the subsequence of the input
\* at its positions, so nothing is added, dropped, duplicated or reordered.
C1_Partition ==
    bpc = "done" =>
        /\ Len(firstBatch) + Len(secondBatch) + Len(thirdBatch) = Len(statements)
        /\ \E f \in [1..Len(statements) -> 1..3] :
              /\ firstBatch = Picked(statements, f, 1, 1)
              /\ secondBatch = Picked(statements, f, 2, 1)
              /\ thirdBatch = Picked(statements, f, 3, 1)

C1_Witness ==
    /\ bpc = "done"
    /\ firstBatch # <<>> /\ secondBatch # <<>> /\ thirdBatch # <<>>
    /\ \E i, j \in 1..Len(statements) : i < j /\ statements[i] = statements[j]

\* C2: with skipIndex false, of the "INDEX" records of one reference object the
\* earliest is the only one in the first batch, the others are in the second
\* batch in input order, and no two records of the first batch share a
\* reference object.
C2_IndexFirst ==
    (bpc = "done" /\ ~skipIndex) =>
        /\ \A ref \in ReferenceObjects :
              LET P(x) == IsIndexOf(x, ref)
                  inInput == SelectSeq(statements, P)
              IN  inInput # <<>> =>
                      /\ SelectSeq(firstBatch, P) = <<Head(inInput)>>
                      /\ SelectSeq(secondBatch, P) = Tail(inInput)
                      /\ SelectSeq(thirdBatch, P) = <<>>
        /\ \A i, j \in 1..Len(firstBatch) :
              i # j => firstBatch[i].ReferenceObject # firstBatch[j].ReferenceObject

C2_Witness ==
    /\ bpc = "done" /\ ~skipIndex
    /\ Len(firstBatch) = 2
    /\ \E i \in 1..Len(secondBatch) :
          /\ secondBatch[i].ObjectType = StrINDEX
          /\ secondBatch[i].Name # firstBatch[1].Name
          /\ secondBatch[i].ReferenceObject = firstBatch[1].ReferenceObject

\* C3: with skipIndex true, the first batch is exactly the "INDEX" and
\* "INDEX METADATA" records of the input, in input order, whatever their
\* reference objects.
C3_SkipIndex ==
    (bpc = "done" /\ skipIndex) =>
        LET P(x) == x.ObjectType = StrINDEX \/ x.ObjectType = StrINDEX_METADATA
        IN  /\ firstBatch = SelectSeq(statements, P)
            /\ SelectSeq(secondBatch, P) = <<>>
            /\ SelectSeq(thirdBatch, P) = <<>>

C3_Witness ==
    /\ bpc = "done" /\ skipIndex
    /\ Len(firstBatch) = 3
    /\ firstBatch[1].ObjectType = StrINDEX
    /\ firstBatch[2].ObjectType = StrINDEX_METADATA
    /\ firstBatch[3].ObjectType = StrINDEX
    /\ firstBatch[1].ReferenceObject = firstBatch[3].ReferenceObject
    /\ firstBatch[1].ReferenceObject = firstBatch[2].ReferenceObject

\* C4: a " METADATA" record is in the first or the third batch, never in the
\* second; the third batch holds only " METADATA" records; with skipIndex
\* false the third batch is all the " METADATA" records of the input.
C4_MetadataIsolation ==
    bpc = "done" =>
        LET M(x) == IsMetadataType(x.ObjectType)
        IN  /\ SelectSeq(secondBatch, M) = <<>>
            /\ SelectSeq(thirdBatch, M) = thirdBatch
            /\ Len(SelectSeq(statements, M))
                 = Len(SelectSeq(firstBatch, M)) + Len(thirdBatch)
            /\ ~skipIndex => thirdBatch = SelectSeq(statements, M)

C4_Witness ==
    /\ bpc = "done" /\ ~skipIndex
    /\ \E i \in 1..Len(thirdBatch) : thirdBatch[i].ObjectType = StrINDEX_METADATA
    /\ \E i \in 1..Len(thirdBatch) : thirdBatch[i].ObjectType = StrRULE_METADATA
    /\ \E i \in 1..Len(statements) : statements[i].ObjectType = StrMETADATA

(***************************************************************************)
(* Properties of ExecuteStatements, checked under Spec.                    *)
(***************************************************************************)
Ids == 1..Len(execStmts)

Failed == {i \in StmtIds : outcome[i] = "err"}

Ended == mpc \in {"returned", "fatal"}

\* The step enters connectionPool.Exec for statement i.
Attempted(i) == attempts'[i] > attempts[i]

\* C5: in parallel mode no statement is ever passed to Exec twice, and an
\* invocation that returns with no termination requested has passed every
\* statement to Exec exactly once.
C5_ParallelExactlyOnce ==
    executeInParallel =>
        /\ \A i \in StmtIds : attempts[i] <= 1
        /\ \A i \in StmtIds \ Ids : attempts[i] = 0
        /\ (mpc = "returned" /\ ~wasTerminated) => \A i \in Ids : attempts[i] = 1

C5_Witness ==
    /\ executeInParallel /\ mpc = "returned" /\ ~wasTerminated
    /\ Len(execStmts) >= 3 /\ numConns >= 2
    /\ \A i \in Ids : attempts[i] = 1
    /\ \E i, j \in Ids : execWorker[i] # execWorker[j]

\* C6: in serial mode no goroutine is started and only the caller's own worker
\* runs; every Exec is on the connection ValidateConnNum gives for whichConn;
\* a statement is passed to Exec only once all statements before it have been
\* executed and none after it has; without termination or fatal error all are
\* executed.
C6_SerialInOrder ==
    /\ [](~executeInParallel =>
            /\ goroutines = 0
            /\ \A w \in Workers \ {0} : wpc[w] = "idle"
            /\ \A i \in StmtIds :
                  /\ attempts[i] <= 1
                  /\ attempts[i] = 1 => /\ execConn[i] = ValidateConnNum(whichConn)
                                        /\ i \in Ids
            /\ (mpc = "returned" /\ ~wasTerminated) => \A i \in Ids : attempts[i] = 1)
    /\ [][~executeInParallel =>
            \A i \in StmtIds :
                Attempted(i) => /\ \A j \in 1..(i - 1) : outcome[j] # "none"
                                /\ \A j \in StmtIds : j >= i => attempts[j] = 0]_vars

C6_Witness ==
    /\ ~executeInParallel /\ mpc = "returned" /\ ~wasTerminated
    /\ whichConn = <<1>>
    /\ Len(execStmts) >= 3
    /\ \A i \in Ids : attempts[i] = 1 /\ execConn[i] = 1
    /\ outcome[2] = "err"

\* C7: under continue-on-error the counter never decreases during the
\* invocation, and an invocation that returns with no termination requested
\* returns the number of statements whose Exec failed.
C7_ErrorCount ==
    /\ []((onErrorContinue /\ mpc = "returned" /\ ~wasTerminated) =>
            ret = Cardinality(Failed))
    /\ [][(onErrorContinue /\ mpc # "call") => numErrors' >= numErrors]_vars

C7_Witness ==
    /\ onErrorContinue /\ executeInParallel /\ mpc = "returned" /\ ~wasTerminated
    /\ ret = 2
    /\ \E i, j \in Failed : execWorker[i] # execWorker[j]
    /\ \E i \in Ids : outcome[i] = "ok"

\* C8: with continue-on-error disabled the counter stays 0, an invocation in
\* which an Exec failed never returns a count (it ends in gplog.Fatal), a
\* worker that saw a failure enters Exec for no further statement, and in
\* serial mode nothing after the failed statement is attempted.
C8_FatalShortCircuit ==
    /\ [](~onErrorContinue =>
            /\ numErrors = 0
            /\ mpc = "returned" => Failed = {}
            /\ mpc = "fatal" => (ret = -1 /\ Failed # {})
            /\ ~executeInParallel =>
                  \A i \in Failed : \A j \in StmtIds : j > i => attempts[j] = 0)
    /\ [][~onErrorContinue =>
            \A j \in StmtIds :
                Attempted(j) => ~\E i \in Failed : execWorker[i] = execWorker'[j]]_vars

C8_Witness ==
    /\ ~onErrorContinue /\ executeInParallel /\ mpc = "fatal"
    /\ Len(execStmts) >= 3
    /\ outcome[1] = "err" /\ outcome[2] = "ok" /\ attempts[3] = 0
    /\ execWorker[1] # execWorker[2]
    /\ numErrors = 0

\* C9: the fatal-error slot is write-once: once it holds an error, no step of
\* the invocation changes it.
C9_WriteOnce ==
    [][(mpc # "call" /\ fatalErr # Nil) => fatalErr' = fatalErr]_vars

\* C10 as stated: Increment is called once for every successful or recovered
\* attempt and never for a statement whose failure is recorded as fatal nor
\* for one not attempted; at the end the increments number the successful
\* plus recovered attempts.
C10_NoIncrementOnFatal ==
    /\ \A i \in StmtIds :
          /\ incremented[i] <= 1
          /\ incremented[i] = 1 =>
                (outcome[i] = "ok" \/ (outcome[i] = "err" /\ onErrorContinue))
    /\ Ended => progress = Cardinality({i \in StmtIds :
                    outcome[i] = "ok" \/ (outcome[i] = "err" /\ onErrorContinue)})

\* C10 as amended: Increment is called exactly once for every attempt whose
\* Exec has returned, whatever its result (success, recovered failure or
\* failure recorded as fatal), and never for a statement that was not
\* attempted; at the end the increments number the attempts.
C10_IncrementPerAttempt ==
    /\ \A i \in StmtIds :
          /\ incremented[i] <= 1
          /\ incremented[i] = 1 => outcome[i] # "none"
          /\ attempts[i] = 0 => incremented[i] = 0
          /\ Ended => incremented[i] = attempts[i]
    /\ progress = Cardinality({i \in StmtIds : incremented[i] = 1})
    /\ Ended => progress = Cardinality({i \in StmtIds : attempts[i] = 1})

C10_Witness ==
    /\ mpc = "fatal" /\ ~onErrorContinue
    /\ Len(execStmts) >= 3
    /\ outcome[1] = "ok" /\ outcome[2] = "err" /\ attempts[3] = 0
    /\ incremented[1] = 1 /\ incremented[2] = 1 /\ incremented[3] = 0
    /\ progress = 2

\* The statement is inside connectionPool.Exec.
InFlight(i) == \E w \in Workers : wpc[w] = "inflight" /\ wstmt[w] = i

\* C19: in parallel mode with continue-on-error disabled, a worker enters Exec
\* at most once while the fatal-error slot is set (for a statement whose
\* loop-top check passed before the store) and never again; at most
\* NumConns-1 workers do so; the statements in flight never outnumber the
\* workers.
C19_FatalStragglers ==
    (executeInParallel /\ ~onErrorContinue) =>
        /\ \A w \in Workers : lateAttempts[w] <= 1
        /\ Cardinality({w \in Workers : lateAttempts[w] > 0}) <= numConns - 1
        /\ Cardinality({i \in StmtIds : InFlight(i)}) <= numConns
        /\ Cardinality({w \in Workers : wpc[w] = "inflight"}) <= numConns

C19_Witness ==
    /\ executeInParallel /\ ~onErrorContinue /\ mpc = "fatal"
    /\ numConns = 2 /\ Len(execStmts) >= 3
    /\ outcome[1] = "err" /\ fatalErr = 1
    /\ lateAttempts[1] = 1 /\ lateAttempts[0] = 0
    /\ attempts[2] = 1 /\ attempts[3] = 0

\* C20: in parallel mode NumConns goroutines are started, goroutine i works on
\* connection i for all its Exec calls, and no connection has two statements
\* in flight at once.
C20_OneWorkerPerConn ==
    executeInParallel =>
        /\ goroutines <= numConns
        /\ mpc \in {"wait", "returned", "fatal"} => goroutines = numConns
        /\ \A w \in Workers : wpc[w] # "idle" => (w < numConns /\ wconn[w] = w)
        /\ \A i \in StmtIds : attempts[i] > 0 => execConn[i] = execWorker[i]
        /\ \A i, j \in StmtIds :
              (i # j /\ InFlight(i) /\ InFlight(j)) => execConn[i] # execConn[j]

C20_Witness ==
    /\ executeInParallel /\ numConns = 2 /\ goroutines = 2
    /\ InFlight(1) /\ InFlight(2)
    /\ execConn[1] = 1 /\ execConn[2] = 0

(***************************************************************************)
(* Properties of WriteStatements, checked under SpecWrite.                 *)
(***************************************************************************)
WIds == 1..Len(writeStmts)

\* Position p of the file (counted from 1) lies in the byte range of st.
InRange(p, st) == p > st.Offset /\ p <= st.Offset + Len(st.Statement)

\* The end of the last byte range, 0 without statements.
RangesEnd ==
    IF writeStmts = <<>>
    THEN 0
    ELSE LET last == CHOOSE i \in WIds :
                        \A j \in WIds : writeStmts[j].Offset <= writeStmts[i].Offset
         IN  writeStmts[last].Offset + Len(writeStmts[last].Statement)

\* C12: the byte ranges being pairwise disjoint, a call of WriteStatements
\* that returns with every write succeeded and no termination requested
\* leaves each statement's text at its offset and every byte outside the
\* ranges as it was (a byte the file did not have before, between its old
\* end and a range, is zero), in parallel and in serial mode.
C12_WriteAtOffsets ==
    (mpc = "returned" /\ writeStmts # <<>> /\ ~wasTerminated /\ ~openFailed
        /\ Failed = {}) =>
        /\ \A i \in WIds :
              LET st == writeStmts[i]
              IN  /\ Len(file) >= st.Offset + Len(st.Statement)
                  /\ SubSeq(file, st.Offset + 1, st.Offset + Len(st.Statement))
                        = st.Statement
        /\ Len(file) = IF RangesEnd > Len(fileInit) THEN RangesEnd ELSE Len(fileInit)
        /\ \A p \in 1..Len(file) :
              (\A i \in WIds : ~InRange(p, writeStmts[i])) =>
                  file[p] = IF p <= Len(fileInit) THEN fileInit[p] ELSE 0

C12_Witness ==
    /\ mpc = "returned" /\ executeInParallel /\ numConns = 2
    /\ ~wasTerminated /\ ~openFailed /\ Failed = {}
    /\ Len(writeStmts) = 2 /\ writeStmts[1].Offset > writeStmts[2].Offset
    /\ fileInit # <<>>
    /\ execWorker[1] = 1 /\ execWorker[2] = 0
    /\ Len(file) > Len(fileInit)

\* C13: a failed open of the output file is handled before any worker
\* starts. With the policy disabled the run ends fatally with no worker
\* started, no write attempted and the file untouched. With the policy
\* enabled the open failure adds exactly one to the error counter and
\* nothing to the failed-object set: the counter is one before the first
\* write returns and never more than one above the number of failed writes,
\* the value returned is one plus the number of failed writes, and the set
\* holds only objects of failed writes. Without an open failure the counter
\* never exceeds the number of failed writes.
C13_OpenFailure ==
    /\ (openFailed /\ ~onErrorContinue) =>
          /\ mpc = "fatal"
          /\ goroutines = 0
          /\ \A w \in Workers : wpc[w] = "idle"
          /\ \A i \in StmtIds : attempts[i] = 0
          /\ numErrors = 0
          /\ errorTablesMetadata = {}
          /\ file = fileInit
    /\ (openFailed /\ onErrorContinue) =>
          /\ numErrors >= 1
          /\ numErrors <= 1 + Cardinality(Failed)
          /\ Failed = {} => errorTablesMetadata = {}
          /\ errorTablesMetadata \subseteq {writeStmts[i].key : i \in Failed}
          /\ mpc = "returned" => ret = 1 + Cardinality(Failed)
          /\ mpc # "fatal"
    /\ ~openFailed => numErrors <= Cardinality(Failed)

C13_Witness ==
    /\ openFailed /\ onErrorContinue /\ executeInParallel /\ numConns = 2
    /\ Len(writeStmts) = 2 /\ mpc = "returned" /\ ret = 3
    /\ Cardinality(errorTablesMetadata) = 2

(***************************************************************************)
(* Properties of both engines, checked under SpecEngines.                  *)
(***************************************************************************)
AtLoopTop(w) == wpc[w] \in {"check", "wcheck"}

\* C11: a worker that makes its loop-top check with termination requested
\* exits, and a worker that has exited makes no further attempt; the step
\* that requests termination leaves the fatal-error slot, the error counter
\* and the failed-object set alone; the slot only ever names a statement
\* that failed, the set only objects of failed statements, and the value
\* returned is the number of failed statements (plus one for a failed open
\* of the output file).
C11_Termination ==
    /\ [][\A w \in Workers :
            /\ (AtLoopTop(w) /\ wasTerminated /\ wpc'[w] # wpc[w]) =>
                  (wpc'[w] = "done" /\ attempts' = attempts)
            /\ wpc[w] = "done" =>
                  (wpc'[w] = "done" /\ \A i \in StmtIds : Attempted(i) => execWorker'[i] # w)]_vars
    /\ [][wasTerminated' # wasTerminated =>
            /\ fatalErr' = fatalErr
            /\ numErrors' = numErrors
            /\ errorTablesMetadata' = errorTablesMetadata]_vars
    /\ [](/\ fatalErr # Nil => outcome[fatalErr] = "err"
          /\ errorTablesMetadata \subseteq {KeyOf(i) : i \in Failed}
          /\ mpc = "returned" =>
                ret = Cardinality(Failed) + (IF openFailed THEN 1 ELSE 0))

C11_Witness ==
    /\ wasTerminated /\ mpc = "returned" /\ executeInParallel /\ numConns = 2
    /\ Len(execStmts) = 3 /\ outcome[1] = "err" /\ ret = 1
    /\ attempts[1] = 1 /\ attempts[2] = 0 /\ attempts[3] = 0

(***************************************************************************)
(* Properties of the sequence of invocations, checked under SpecPipeline   *)
(* and SpecBlocking.                                                       *)
(***************************************************************************)
PIds == 1..Len(statements)

InBatch(i, b) == \E p \in DOMAIN Batch(b) : Batch(b)[p].id = i

\* The batch statement i was put in; BatchPostdataStatements has returned.
BatchOf(i) == CHOOSE b \in 1..3 : InBatch(i, b)

Finished(i) == outcome[i] # "none"

\* Statement i has been passed to Exec or WriteAt, which has not returned.
Pending(i) == attempts[i] > 0 /\ ~Finished(i)

Running(w) == wpc[w] \notin {"idle", "done"}

\* C14: when ExecuteStatements or WriteStatements has returned or reached
\* its fatal exit no worker is running, every goroutine started is done and
\* no statement is in flight; and in the sequence of invocations a
\* statement is attempted only when every statement of the batches before
\* its own has finished.
C14_Blocking ==
    /\ Ended =>
          /\ \A w \in Workers : ~Running(w)
          /\ \A w \in Workers : w < goroutines => wpc[w] = "done"
          /\ \A i \in StmtIds : ~Pending(i)
    /\ bpc = "done" =>
          \A i, j \in PIds :
              (attempts[i] > 0 /\ BatchOf(j) < BatchOf(i)) => Finished(j)

C14_Witness ==
    /\ bpc = "done" /\ batchNo = 3 /\ executeInParallel /\ Len(statements) = 2
    /\ BatchOf(1) = 2 /\ BatchOf(2) = 3 /\ outcome[1] = "err"
    /\ \E w \in Workers : wpc[w] = "inflight" /\ wstmt[w] = 2

IsIndex(i) == statements[i].ObjectType = StrINDEX

SameObject(i, j) == statements[i].ReferenceObject = statements[j].ReferenceObject

\* C17: with skipIndex false, two INDEX statements of one reference object
\* are in flight together only when an INDEX statement of that object has
\* finished; the first batch holds no two INDEX statements of one object,
\* and an INDEX statement outside the first batch is attempted only when
\* every statement of the first batch has finished.
C17_OneIndexFirst ==
    (~skipIndex /\ bpc = "done") =>
        /\ \A i, j \in PIds :
              (i # j /\ IsIndex(i) /\ IsIndex(j) /\ SameObject(i, j)) =>
                  /\ ~(InBatch(i, 1) /\ InBatch(j, 1))
                  /\ (InFlight(i) /\ InFlight(j)) =>
                        \E k \in PIds :
                            IsIndex(k) /\ SameObject(k, i) /\ Finished(k)
        /\ \A i, j \in PIds :
              (IsIndex(i) /\ ~InBatch(i, 1) /\ attempts[i] > 0 /\ InBatch(j, 1)) =>
                  Finished(j)

C17_Witness ==
    /\ ~skipIndex /\ bpc = "done" /\ executeInParallel /\ Len(statements) = 2
    /\ IsIndex(1) /\ IsIndex(2) /\ SameObject(1, 2)
    /\ batchNo = 2 /\ InFlight(2) /\ outcome[1] = "ok"

\* The statements of the invocation under way, and those of them that failed.
Current == {i \in PIds : InBatch(i, batchNo)}

CurrentFailed == {i \in Current : outcome[i] = "err"}

\* ExecuteStatements has set up its locals and Exec has not been entered.
AtStart == mpc \in {"spawn", "serial"} /\ \A i \in Current : attempts[i] = 0

\* C15 as stated: every call starts with no fatal error, a zero counter and
\* an empty failed-object set.
C15_InvocationScoped ==
    (bpc = "done" /\ AtStart) =>
        (fatalErr = Nil /\ numErrors = 0 /\ errorTablesMetadata = {})

\* C15 as the code has it: the fatal-error slot and the error counter are
\* locals of one call, which starts with no fatal error and a zero counter
\* and counts and names only its own failures; errorTablesMetadata is a
\* package variable that no call empties, so at every moment it holds the
\* objects of the failures of all the calls so far, and only those.
C15_LocalsPerCallSetShared ==
    (bpc = "done" /\ mpc \notin {"off", "call"}) =>
        /\ AtStart => (fatalErr = Nil /\ numErrors = 0)
        /\ fatalErr # Nil => fatalErr \in CurrentFailed
        /\ numErrors <= Cardinality(CurrentFailed)
        /\ (mpc = "returned" /\ onErrorContinue) => ret = Cardinality(CurrentFailed)
        /\ errorTablesMetadata \subseteq {KeyOf(i) : i \in Failed}
        /\ {KeyOf(i) : i \in Failed \ Current} \subseteq errorTablesMetadata
        /\ ~onErrorContinue => errorTablesMetadata = {}

C15_Witness ==
    /\ bpc = "done" /\ batchNo = 2 /\ AtStart /\ onErrorContinue
    /\ executeInParallel /\ Current # {}
    /\ fatalErr = Nil /\ numErrors = 0 /\ errorTablesMetadata # {}

IsMetadata(i) == Contains(statements[i].ObjectType, StrSpaceMETADATA)

\* If m is a metadata statement and c a statement of the same reference
\* object that is not one, m is never in flight together with c and is
\* attempted only when c has finished.
AfterCreator(m, c) ==
    (IsMetadata(m) /\ ~IsMetadata(c) /\ SameObject(m, c)) =>
        /\ ~(InFlight(m) /\ InFlight(c))
        /\ attempts[m] > 0 => Finished(c)

\* C18 as stated: for either value of skipIndex no metadata statement is in
\* flight together with a statement of its reference object that is not a
\* metadata statement, or is attempted before that statement has finished.
C18_MetadataAfterCreator ==
    bpc = "done" => \A m, c \in PIds : AfterCreator(m, c)

\* C18 as the code has it: the same for every metadata statement when
\* skipIndex is false, and when it is true for every metadata statement
\* but those of type "INDEX METADATA", which go to the first batch.
C18_MetadataAfterCreatorButIndexMetadata ==
    bpc = "done" =>
        \A m, c \in PIds :
            (~skipIndex \/ statements[m].ObjectType # StrINDEX_METADATA) =>
                AfterCreator(m, c)

C18_Witness ==
    /\ bpc = "done" /\ skipIndex /\ executeInParallel /\ Len(statements) = 2
    /\ statements[1].ObjectType = StrRULE /\ statements[2].ObjectType = StrRULE_METADATA
    /\ SameObject(1, 2) /\ batchNo = 3 /\ InFlight(2) /\ outcome[1] = "ok"

(***************************************************************************)
(* Properties of EmailReport, checked under SpecEmail.                     *)
(***************************************************************************)
IsPrefix(a, b) == Len(a) <= Len(b) /\ SubSeq(b, 1, Len(a)) = a

\* The commands a finished call has run, from what the two tests find.
ExpectedCommands ==
    IF homeFound
    THEN <<HomeCmd, Message(homeContacts)>>
    ELSE IF gphomeFound
    THEN <<HomeCmd, GpHomeCmd, Message(gphomeContacts)>>
    ELSE <<HomeCmd, GpHomeCmd>>

\* C16: EmailReport tests $HOME/mail_contacts first and, that file found,
\* sends to its addresses with no test of $GPHOME/bin/mail_contacts, also
\* when both exist; otherwise it tests $GPHOME/bin/mail_contacts and sends
\* to the addresses of that file; with neither it runs the two tests, sends
\* nothing and prints the warning.
C16_ContactsFileOrder ==
    /\ IsPrefix(localCommands, ExpectedCommands)
    /\ epc = "done" => localCommands = ExpectedCommands
    /\ warned <=> (epc = "done" /\ ~homeFound /\ ~gphomeFound)

C16_Witness ==
    /\ epc = "done" /\ homeFound /\ gphomeFound /\ homeContacts # gphomeContacts
    /\ localCommands = <<HomeCmd, Message(homeContacts)>> /\ ~warned

(***************************************************************************)
(* The fatal-error slot, the failed open and the failed-object set.        *)
(***************************************************************************)
\* Worker w is at the read of *fatalErr of line 26.
ReadsFatalErr(w) == wpc[w] = "check"

\* Worker w is at the store *fatalErr = err of line 43.
WritesFatalErr(w) == wpc[w] = "setfatal"

\* C22 as stated: in parallel mode, when a worker is at its store to the
\* fatal-error slot no other worker is at a read or a store of the slot
\* (the two accesses, neither of them under the mutex or ordered by the
\* channel, could then happen in either order or at once).
C22_FatalSlotExclusive ==
    executeInParallel =>
        \A w \in Workers :
            WritesFatalErr(w) =>
                \A v \in Workers \ {w} : ~ReadsFatalErr(v) /\ ~WritesFatalErr(v)

\* C23: in WriteStatements under continue-on-error a failed open leaves the
\* file as it was whatever the workers do; the call never ends fatally;
\* and when it returns with no termination requested the goroutines of the
\* parallel mode were all started, each of the k statements was passed to
\* WriteAt once and failed, and the value returned is k + 1.
C23_FailedOpenCountsEveryStatement ==
    (openFailed /\ onErrorContinue) =>
        /\ file = fileInit
        /\ mpc # "fatal"
        /\ \A i \in StmtIds : outcome[i] # "ok"
        /\ (mpc = "returned" /\ ~wasTerminated) =>
              /\ executeInParallel => goroutines = numConns
              /\ \A i \in WIds : attempts[i] = 1 /\ outcome[i] = "err"
              /\ ret = Len(writeStmts) + 1

C23_Witness ==
    /\ openFailed /\ onErrorContinue /\ ~wasTerminated /\ mpc = "returned"
    /\ executeInParallel /\ numConns = 2 /\ goroutines = 2
    /\ Len(writeStmts) = 2 /\ fileInit # <<>> /\ file = fileInit
    /\ execWorker[1] # execWorker[2] /\ ret = 3

\* C24: in one invocation of either engine the failed-object set holds only
\* keys of statements that failed; under continue-on-error it holds the key
\* of every failed statement once the invocation has returned, and no more
\* keys than the value returned; with the policy disabled it stays empty.
C24_FailedObjectKeys ==
    /\ errorTablesMetadata \subseteq {KeyOf(i) : i \in Failed}
    /\ ~onErrorContinue => errorTablesMetadata = {}
    /\ (onErrorContinue /\ mpc = "returned") =>
          /\ errorTablesMetadata = {KeyOf(i) : i \in Failed}
          /\ Cardinality(errorTablesMetadata) <= ret

C24_Witness ==
    /\ onErrorContinue /\ executeInParallel /\ mpc = "returned"
    /\ Len(execStmts) = 3 /\ Failed = {1, 3} /\ outcome[2] = "ok"
    /\ KeyOf(1) = KeyOf(3)
    /\ errorTablesMetadata = {KeyOf(1)} /\ ret = 2

(***************************************************************************)
(* Mutual exclusion and termination, checked under SpecEnginesFair.        *)
(***************************************************************************)
\* Worker w is between mutex.Lock() and mutex.Unlock().
InCritical(w) == wpc[w] \in {"insert", "unlock", "winsert", "wunlock"}

\* Worker w is blocked in, or about to call, mutex.Lock().
AtLock(w) == wpc[w] \in {"lock", "wlock"}

\* The step is the atomic.AddInt32 of some worker.
IsAtomicAdd ==
    \E w \in Workers : wpc[w] \in {"add", "wadd"} /\ wpc'[w] # wpc[w]

\* The step is the map insert of the worker that holds the mutex.
IsInsertByHolder ==
    /\ mutexHolder \in Workers
    /\ wpc[mutexHolder] \in {"insert", "winsert"}
    /\ wpc'[mutexHolder] # wpc[mutexHolder]

C25_Terminates ==
    <>(Ended /\ \A w \in Workers : w < goroutines => wpc[w] = "done")

C25_Witness ==
    /\ mpc = "returned" /\ executeInParallel /\ numConns = 2 /\ goroutines = 2
    /\ Len(execStmts) = 3 /\ \A i \in Ids : attempts[i] = 1
    /\ wpc[0] = "done" /\ wpc[1] = "done" /\ tasks = <<>> /\ ~wasTerminated

====
